---- MODULE Spec2Model ----
(***************************************************************************)
(* A model of twitch-drops-list (src/src/main.rs): one run of main, which  *)
(* fetches the active drop campaigns, sorts the games, renders the report  *)
(* through a BufWriter into a temporary file and persists it as DROPS.md.  *)
(*                                                                         *)
(* Timestamps are whole minutes since the Unix epoch (chrono keeps finer   *)
(* instants; every comparison and division of the program is kept, with    *)
(* the minute as the smallest step of the clock).  Strings are sequences   *)
(* of code points.  A rendered line is a record: its kind is the format    *)
(* string of the writeln! that produced it, its fields are the arguments.  *)
(***************************************************************************)
EXTENDS Integers, Sequences, FiniteSets, TLC

VARIABLES
    pc,       \* position of the run in main (or in the function under study)
    feed,     \* what the API answers: the list of games of the JSON response
    games,    \* main's `games` vector
    now,      \* the instant Utc::now() returns in this run
    buf,      \* the lines held in the BufWriter's buffer
    tmp,      \* the lines in the temporary file (none while there is no file)
    outFile,  \* the lines of DROPS.md
    status,   \* "running", "ok" (exit status 0) or "err" (non-zero)
    doc,      \* the whole text handed to the writer, once rendering is over
    arg,      \* argument of the pure function under study
    ret       \* its result

vars == <<pc, feed, games, now, buf, tmp, outFile, status, doc, arg, ret>>

----------------------------------------------------------------------------
(* Program constants *)

LATEST_WINDOW_DAYS == 7

\* num_days() and date_naive() cut an instant into days
MinutesPerDay == 1440

\* `as i16`: a 16-bit two's complement integer
I16Modulus == 65536
I16Half == 32768

----------------------------------------------------------------------------
(* Bounds *)

MaxGames == 2      \* games in the feed
MaxDrops == 2      \* drops in the feed, all games together
BufCap == 4        \* lines the BufWriter holds before it flushes
MaxLen == 3        \* length of the strings escape_markdown is studied on

----------------------------------------------------------------------------
(* Values *)

None == "none"
OldContents == <<[kind |-> "old"]>>

\* Code points
Special ==
    { 92, 96, 42, 95, 123, 125, 91, 93, 40, 41, 35, 43, 45, 46, 33, 124, 60, 62, 126 }

\* "A", "a", "B_": two names equal after case folding, and one that sorts
\* before "a" byte-wise and after it case-folded
GameNames == { <<65>>, <<97>>, <<66, 95>> }

\* 2024-03-03T22:13Z, and 2024-01-01T00:00Z (midnight exactly)
NowEvening == 19785 * MinutesPerDay + 1333
NowMidnight == 19723 * MinutesPerDay

Window == LATEST_WINDOW_DAYS * MinutesPerDay

Reward1 == [name |-> <<114>>, minutes_required |-> 30]
Reward2 == [name |-> <<35, 50>>, minutes_required |-> 65535]

\* Drops of the feed, as offsets from now: one starting at the cutoff instant
\* exactly, one a minute later, one a minute earlier, two on the current day
DropTemplates ==
    { [name |-> <<120, 42>>, so |-> 0 - Window, eo |-> 2 * MinutesPerDay + 5,
       rewards |-> <<Reward1, Reward2>>],
      [name |-> <<121>>, so |-> 1 - Window, eo |-> 0 - 1, rewards |-> <<>>],
      [name |-> <<121>>, so |-> 0 - Window - 1, eo |-> 0, rewards |-> <<>>],
      [name |-> <<120, 42>>, so |-> 0 - 1, eo |-> MinutesPerDay,
       rewards |-> <<Reward2>>],
      [name |-> <<121>>, so |-> 0, eo |-> 0 - MinutesPerDay - 1,
       rewards |-> <<Reward1>>] }

DropAt(t, n) ==
    [name |-> t.name, start_at |-> n + t.so, end_at |-> n + t.eo,
     rewards |-> t.rewards]

\* The feeds: up to MaxGames games, up to MaxDrops drops shared among them
Placements(n) ==
    UNION { { p \in [1..k -> (1..n) \X DropTemplates] :
                \A i \in 1..(k - 1) : p[i][1] <= p[i + 1][1] } : k \in 0..MaxDrops }

DropsOf(p, g, n) ==
    LET mine == SelectSeq(p, LAMBDA e : e[1] = g)
    IN  [i \in 1..Len(mine) |-> DropAt(mine[i][2], n)]

Feeds(n) ==
    UNION { { [g \in 1..k |-> [game_display_name |-> names[g],
                               drops |-> DropsOf(p, g, n)]] :
                names \in [1..k -> GameNames], p \in Placements(k) } :
            k \in 0..MaxGames }

----------------------------------------------------------------------------
(* Text *)

\* str's Ord: byte-wise lexicographic order, a proper prefix first
StrLess(a, b) ==
    \E i \in 1..(Len(a) + 1) :
        /\ \A j \in 1..(i - 1) : j <= Len(b) /\ a[j] = b[j]
        /\ \/ i > Len(a) /\ i <= Len(b)
           \/ i <= Len(a) /\ i <= Len(b) /\ a[i] < b[i]

\* str::to_lowercase on the code points the model draws names from
to_lowercase(s) ==
    [i \in 1..Len(s) |-> IF s[i] \in 65..90 THEN s[i] + 32 ELSE s[i]]

\* {} of an integer: its decimal digits, a minus sign (45) first when negative
RECURSIVE Digits(_)
Digits(n) ==
    IF n < 10 THEN <<48 + n>> ELSE Append(Digits(n \div 10), 48 + (n % 10))

Decimal(n) == IF n < 0 THEN <<45>> \o Digits(0 - n) ELSE Digits(n)

escape_markdown_drops_backslash(text) ==
    LET RECURSIVE Go(_, _)
        Go(i, escaped) ==
            IF i > Len(text) THEN escaped
            ELSE IF text[i] \in Special \ {92}
                 THEN Go(i + 1, escaped \o <<92, text[i]>>)
                 ELSE Go(i + 1, Append(escaped, text[i]))
    IN  Go(1, <<>>)

escape_markdown(text) ==
    LET RECURSIVE Go(_, _)
        Go(i, escaped) ==
            IF i > Len(text) THEN escaped
            ELSE IF text[i] \in Special
                 THEN Go(i + 1, escaped \o <<92, text[i]>>)
                 ELSE Go(i + 1, Append(escaped, text[i]))
    IN  Go(1, <<>>)

----------------------------------------------------------------------------
(* Days *)

\* i64 division, which truncates toward zero
TruncDiv(a, b) == IF a >= 0 THEN a \div b ELSE 0 - ((0 - a) \div b)

\* TimeDelta::num_days
num_days(delta) == TruncDiv(delta, MinutesPerDay)

\* `as i16` keeps the low 16 bits
AsI16(n) == ((n + I16Half) % I16Modulus) - I16Half

format_days_from_now(days) ==
    CASE days = 0 -> <<"today">>
      [] days = 1 -> <<"tomorrow">>
      [] OTHER -> <<"in ", Decimal(days), " days">>

ends_in_days(end, n) ==
    LET days == AsI16(num_days(end - n))
    IN  IF days < 0 THEN <<"already ended">>
        ELSE <<"ends ">> \o format_days_from_now(days)

\* DateTime::date_naive: the UTC calendar day, counted from 1970-01-01
date_naive(t) == t \div MinutesPerDay

\* NaiveDate::format("%Y-%m-%d"): year, month and day of a day count
FormatDate(days) ==
    LET z == days + 719468
        era == z \div 146097
        doe == z - era * 146097
        yoe == (doe - doe \div 1460 + doe \div 36524 - doe \div 146096) \div 365
        doy == doe - (365 * yoe + yoe \div 4 - yoe \div 100)
        mp == (5 * doy + 2) \div 153
        d == doy - (153 * mp + 2) \div 5 + 1
        m == IF mp < 10 THEN mp + 3 ELSE mp - 9
        y == yoe + era * 400 + (IF m <= 2 THEN 1 ELSE 0)
    IN  <<y, m, d>>

----------------------------------------------------------------------------
(* main: the sort *)

SortKeyExact(g) == g.game_display_name

\* the key closure of sort_by_key
SortKey(g) == to_lowercase(g.game_display_name)

KeyLeq(a, b) == ~StrLess(SortKey(b), SortKey(a))

\* slice::sort_by_key is stable: an element ends up behind every element
\* of the ones before it whose key is not greater
InsertByKey(sorted, g) ==
    LET n == Cardinality({ i \in 1..Len(sorted) : KeyLeq(sorted[i], g) })
    IN  SubSeq(sorted, 1, n) \o <<g>> \o SubSeq(sorted, n + 1, Len(sorted))

RECURSIVE SortFrom(_, _, _)
SortFrom(list, i, sorted) ==
    IF i > Len(list) THEN sorted
    ELSE SortFrom(list, i + 1, InsertByKey(sorted, list[i]))

sort_by_key(list) == SortFrom(list, 1, <<>>)

----------------------------------------------------------------------------
(* The lines of the report *)

Blank == [kind |-> "blank"]
Title == [kind |-> "# Twitch Drops Campaigns"]
NoneFound == [kind |-> "No active drops campaigns found."]
RecentHeading == [kind |-> "## Recent Drops"]
NoneRecent ==
    [kind |-> "No drop campaigns started in the last {} days.",
     days |-> Decimal(LATEST_WINDOW_DAYS)]
AllHeading == [kind |-> "## All drops"]
DateLine(date) == [kind |-> "{}", date |-> FormatDate(date)]
RecentGameLine(name) == [kind |-> "- {}", name |-> escape_markdown(name)]
RecentDropLine(drop, n) ==
    [kind |-> "  - {} ({})", name |-> escape_markdown(drop.name),
     ends |-> ends_in_days(drop.end_at, n)]
AllGameLine(game) ==
    [kind |-> "{}", name |-> escape_markdown(game.game_display_name)]
AllDropLine(drop, n) ==
    [kind |-> "- {} ({})", name |-> escape_markdown(drop.name),
     ends |-> ends_in_days(drop.end_at, n)]
RewardLine(reward) ==
    [kind |-> "  - {} ({} minutes watched)", name |-> escape_markdown(reward.name),
     minutes |-> Decimal(reward.minutes_required)]

RECURSIVE Flatten(_)
Flatten(ss) == IF ss = <<>> THEN <<>> ELSE Head(ss) \o Flatten(Tail(ss))

----------------------------------------------------------------------------
(* write_latest_drops *)

updates_from(n) == n - Window

IsRecentInclusive(drop, n) == drop.start_at >= updates_from(n)

\* the filter closure
IsRecent(drop, n) == drop.start_at > updates_from(n)

GroupKeyFolded(game) == to_lowercase(game.game_display_name)

\* the key of the inner map
GroupKey(game) == game.game_display_name

EmptyMap == <<>>

\* entry(date).or_default().entry(name).or_default().push(drop)
Push(map, date, name, drop) ==
    LET inner == IF date \in DOMAIN map THEN map[date] ELSE EmptyMap
        vec == IF name \in DOMAIN inner THEN inner[name] ELSE <<>>
    IN  (date :> ((name :> Append(vec, drop)) @@ inner)) @@ map

RECURSIVE CollectFrom(_, _, _, _, _)
CollectFrom(list, n, g, d, map) ==
    IF g > Len(list) THEN map
    ELSE IF d > Len(list[g].drops) THEN CollectFrom(list, n, g + 1, 1, map)
    ELSE LET drop == list[g].drops[d]
         IN  CollectFrom(list, n, g, d + 1,
                 IF IsRecent(drop, n)
                 THEN Push(map, date_naive(drop.start_at), GroupKey(list[g]), drop)
                 ELSE map)

latest_updates(list, n) == CollectFrom(list, n, 1, 1, EmptyMap)

RECURSIVE DatesAscending(_)
DatesAscending(S) ==
    IF S = {} THEN <<>>
    ELSE LET m == CHOOSE x \in S : \A y \in S : x <= y
         IN  <<m>> \o DatesAscending(S \ {m})

RECURSIVE DatesDescending(_)
DatesDescending(S) ==
    IF S = {} THEN <<>>
    ELSE LET m == CHOOSE x \in S : \A y \in S : y <= x
         IN  <<m>> \o DatesDescending(S \ {m})

\* latest_updates.iter().rev()
DateOrder(S) == DatesDescending(S)

\* the iteration of a BTreeMap<&str, _>
RECURSIVE NameOrder(_)
NameOrder(S) ==
    IF S = {} THEN <<>>
    ELSE LET m == CHOOSE x \in S : \A y \in S : y = x \/ StrLess(x, y)
         IN  <<m>> \o NameOrder(S \ {m})

GameGroupLines(name, drops, n) ==
    <<RecentGameLine(name)>> \o [i \in 1..Len(drops) |-> RecentDropLine(drops[i], n)]

DateGroupLines(date, inner, n) ==
    LET names == NameOrder(DOMAIN inner)
    IN  <<DateLine(date)>>
        \o Flatten([i \in 1..Len(names) |->
                       GameGroupLines(names[i], inner[names[i]], n)])
        \o <<Blank>>

write_latest_drops(list, n) ==
    LET map == latest_updates(list, n)
        dates == DateOrder(DOMAIN map)
    IN  <<RecentHeading, Blank>>
        \o IF DOMAIN map = {} THEN <<NoneRecent, Blank>>
           ELSE Flatten([i \in 1..Len(dates) |->
                            DateGroupLines(dates[i], map[dates[i]], n)])

----------------------------------------------------------------------------
(* write_all_games *)

DropBlockLines(drop, n) ==
    <<AllDropLine(drop, n)>>
    \o [i \in 1..Len(drop.rewards) |-> RewardLine(drop.rewards[i])]

GameBlockLines(game, n) ==
    <<AllGameLine(game)>>
    \o Flatten([i \in 1..Len(game.drops) |-> DropBlockLines(game.drops[i], n)])
    \o <<Blank>>

write_all_games(list, n) ==
    <<AllHeading, Blank>>
    \o Flatten([i \in 1..Len(list) |-> GameBlockLines(list[i], n)])

----------------------------------------------------------------------------
(* The BufWriter over the temporary file *)

\* writeln! of `lines`, one after the other, from buffer b and file t.  A line
\* that does not fit makes the writer flush its buffer to the file first; a
\* line as large as the buffer goes to the file directly.  With `refused`
\* the file refuses the write, which the writeln! returns as its error.
RECURSIVE WriteFrom(_, _, _, _, _)
WriteFrom(b, t, lines, i, refused) ==
    IF i > Len(lines) THEN [ok |-> TRUE, buf |-> b, tmp |-> t]
    ELSE LET flushes == Len(b) + 1 > BufCap
             direct == 1 >= BufCap
             b1 == IF flushes THEN <<>> ELSE b
             t1 == IF flushes THEN t \o b ELSE t
         IN  IF (flushes \/ direct) /\ refused
             THEN [ok |-> FALSE, buf |-> b, tmp |-> t]
             ELSE IF direct
                  THEN WriteFrom(b1, Append(t1, lines[i]), lines, i + 1, refused)
                  ELSE WriteFrom(Append(b1, lines[i]), t1, lines, i + 1, refused)

----------------------------------------------------------------------------
(* main *)

Idle == arg = None /\ ret = None

IsEmptyNever(list) == FALSE

\* games.is_empty()
is_empty(list) == list = <<>>

Init ==
    /\ pc = "fetch"
    /\ now = NowEvening
    /\ feed \in Feeds(now)
    /\ games = <<>>
    /\ buf = <<>>
    /\ tmp = <<>>
    /\ outFile = OldContents
    /\ status = "running"
    /\ doc = <<>>
    /\ Idle

\* `?` on an error: main returns it, the writer and the temporary file are
\* dropped (the file is deleted) and the process exits with a non-zero status
Abort(cause) ==
    /\ pc' = "exit"
    /\ status' = cause
    /\ buf' = <<>>
    /\ tmp' = <<>>
    /\ UNCHANGED <<feed, games, now, outFile, doc, arg, ret>>

\* a run of writeln! calls on the writer, each followed by `?`
Emit(lines, next, last) ==
    \E refused \in BOOLEAN :
        LET r == WriteFrom(buf, tmp, lines, 1, refused)
        IN  IF r.ok
            THEN /\ pc' = next
                 /\ buf' = r.buf
                 /\ tmp' = r.tmp
                 /\ doc' = IF last THEN r.tmp \o r.buf ELSE doc
                 /\ UNCHANGED <<feed, games, now, outFile, status, arg, ret>>
            ELSE Abort("failed to write")

FetchOk ==
    /\ pc = "fetch"
    /\ games' = feed
    /\ pc' = "sort"
    /\ UNCHANGED <<feed, now, buf, tmp, outFile, status, doc, arg, ret>>

FetchFail ==
    /\ pc = "fetch"
    /\ \E cause \in {"failed to fetch from api", "failed to parse json response"} :
           Abort(cause)

Sort ==
    /\ pc = "sort"
    /\ games' = sort_by_key(games)
    /\ pc' = "mktemp"
    /\ UNCHANGED <<feed, now, buf, tmp, outFile, status, doc, arg, ret>>

CreateTempOk ==
    /\ pc = "mktemp"
    /\ tmp' = <<>>
    /\ pc' = "title"
    /\ UNCHANGED <<feed, games, now, buf, outFile, status, doc, arg, ret>>

CreateTempFail ==
    /\ pc = "mktemp"
    /\ Abort("failed to create temporary file")

WriteTitle ==
    /\ pc = "title"
    /\ Emit(<<Title, Blank>>, "body", FALSE)

WriteNoneFound ==
    /\ pc = "body"
    /\ is_empty(games)
    /\ Emit(<<NoneFound>>, "return", TRUE)

\* return Ok(()) inside the block: the writer is dropped, which flushes what
\* it can and ignores an error, then the temporary file is dropped
ReturnEmpty ==
    /\ pc = "return"
    /\ pc' = "exit"
    /\ status' = "ok"
    /\ buf' = <<>>
    /\ tmp' = <<>>
    /\ UNCHANGED <<feed, games, now, outFile, doc, arg, ret>>

WriteLatestDrops ==
    /\ pc = "body"
    /\ ~is_empty(games)
    /\ Emit(write_latest_drops(games, now), "all", FALSE)

WriteAllGames ==
    /\ pc = "all"
    /\ Emit(write_all_games(games, now), "close", TRUE)

\* the end of the block drops the writer: BufWriter's drop flushes the buffer
\* and ignores an error, so the file gets the first k buffered lines
CloseWriter ==
    /\ pc = "close"
    /\ \E k \in 0..Len(buf) : tmp' = tmp \o SubSeq(buf, 1, k)
    /\ buf' = <<>>
    /\ pc' = "persist"
    /\ UNCHANGED <<feed, games, now, outFile, status, doc, arg, ret>>

PersistOk ==
    /\ pc = "persist"
    /\ outFile' = tmp
    /\ tmp' = <<>>
    /\ status' = "ok"
    /\ pc' = "exit"
    /\ UNCHANGED <<feed, games, now, buf, doc, arg, ret>>

PersistFail ==
    /\ pc = "persist"
    /\ Abort("failed to persist file")

Next ==
    \/ FetchOk
    \/ FetchFail
    \/ Sort
    \/ CreateTempOk
    \/ CreateTempFail
    \/ WriteTitle
    \/ WriteNoneFound
    \/ ReturnEmpty
    \/ WriteLatestDrops
    \/ WriteAllGames
    \/ CloseWriter
    \/ PersistOk
    \/ PersistFail

Spec == Init /\ [][Next]_vars

----------------------------------------------------------------------------
(* ends_in_days on its own: every pair of an end instant and a now *)

\* whole days from now to the end, around zero and around the i16 limits
DayCounts ==
    { 0 - 65537, 0 - 65536, 0 - 32769, 0 - 32768, 0 - 32767, 0 - 2, 0 - 1,
      0, 1, 2, 3, 10, 32767, 32768, 32769, 65536, 65537 }

EndOffsets ==
    { d * MinutesPerDay + m : d \in DayCounts, m \in {0 - 1, 0, 1, MinutesPerDay - 1} }

InitEnds ==
    /\ pc = "call"
    /\ now \in { NowEvening, NowMidnight }
    /\ arg \in { now + off : off \in EndOffsets }
    /\ ret = None
    /\ feed = <<>>
    /\ games = <<>>
    /\ buf = <<>>
    /\ tmp = <<>>
    /\ outFile = OldContents
    /\ status = "running"
    /\ doc = <<>>

CallEndsInDays ==
    /\ pc = "call"
    /\ ret' = ends_in_days(arg, now)
    /\ pc' = "returned"
    /\ UNCHANGED <<feed, games, now, buf, tmp, outFile, status, doc, arg>>

NextEnds == CallEndsInDays

SpecEnds == InitEnds /\ [][NextEnds]_vars

----------------------------------------------------------------------------
(* escape_markdown on its own: every pair of strings *)

\* a backslash, an asterisk and a letter
EscapeAlphabet == { 92, 42, 97 }

Strings == UNION { [1..n -> EscapeAlphabet] : n \in 0..MaxLen }

\* every special character, and some others, alone
Singles == { <<c>> : c \in Special \cup { 32, 65, 97, 48 } }

EscapeInputs == (Strings \X Strings) \cup (Singles \X Singles)

InitEscape ==
    /\ pc = "call"
    /\ arg \in EscapeInputs
    /\ ret = None
    /\ now = NowEvening
    /\ feed = <<>>
    /\ games = <<>>
    /\ buf = <<>>
    /\ tmp = <<>>
    /\ outFile = OldContents
    /\ status = "running"
    /\ doc = <<>>

CallEscapeMarkdown ==
    /\ pc = "call"
    /\ ret' = <<escape_markdown(arg[1]), escape_markdown(arg[2])>>
    /\ pc' = "returned"
    /\ UNCHANGED <<feed, games, now, buf, tmp, outFile, status, doc, arg>>

NextEscape == CallEscapeMarkdown

SpecEscape == InitEscape /\ [][NextEscape]_vars

----------------------------------------------------------------------------
(* Properties of ends_in_days (SpecEnds) *)

Returned == pc = "returned"

\* C2: an end instant before now, be it by less than a day, is rendered as
\* "already ended", and never as "ends today".
C2_PastEndIsAlreadyEnded ==
    (Returned /\ arg < now) => ret = <<"already ended">>

\* the phrase the whole-day count N stands for
PhraseOfDays(N) ==
    CASE N = 0 -> <<"ends ", "today">>
      [] N = 1 -> <<"ends ", "tomorrow">>
      [] OTHER -> <<"ends ", "in ", Decimal(N), " days">>

\* C3: an end instant N whole days after now (N >= 0) is rendered as "ends
\* today", "ends tomorrow" or "ends in N days" with that very N, however
\* large N is.
C3_FutureEndShowsItsDayCount ==
    (Returned /\ arg >= now) => ret = PhraseOfDays((arg - now) \div MinutesPerDay)

----------------------------------------------------------------------------
(* Properties of escape_markdown (SpecEscape) *)

SpecialsUpTo(text, i) == Cardinality({ j \in 1..i : text[j] \in Special })

\* where the i-th character of the input lands in the output
EscapedPos(text, i) == i + SpecialsUpTo(text, i)

\* out is text with a backslash put right before each special character and
\* nothing else changed
IsEscapeOf(out, text) ==
    /\ Len(out) = Len(text) + SpecialsUpTo(text, Len(text))
    /\ \A i \in 1..Len(text) :
           /\ out[EscapedPos(text, i)] = text[i]
           /\ text[i] \in Special => out[EscapedPos(text, i) - 1] = 92

\* reading out from the left, a backslash and the character it escapes
\* together: no special character stands on its own
RECURSIVE NoBareSpecial(_, _)
NoBareSpecial(out, i) ==
    IF i > Len(out) THEN TRUE
    ELSE IF out[i] = 92
         THEN i < Len(out) /\ out[i + 1] \in Special /\ NoBareSpecial(out, i + 2)
         ELSE out[i] \notin Special /\ NoBareSpecial(out, i + 1)

\* C9: escape_markdown puts a backslash before each special character and
\* copies the rest, so the output is longer by the number of special
\* characters, has no unescaped special character, and differs for
\* different inputs.
C9_EscapeInsertsBackslashes ==
    Returned =>
        /\ \A k \in 1..2 : IsEscapeOf(ret[k], arg[k]) /\ NoBareSpecial(ret[k], 1)
        /\ ret[1] = ret[2] => arg[1] = arg[2]

\* two different inputs with backslashes and special characters were escaped
C9_Witness ==
    /\ Returned
    /\ arg[1] # arg[2]
    /\ \E i \in 1..Len(arg[1]) : arg[1][i] = 92
    /\ \E i \in 1..Len(arg[2]) : arg[2][i] = 42
    /\ Len(ret[1]) > Len(arg[1])

----------------------------------------------------------------------------
(* Reading a rendered document back *)

\* the numbers of a set, smallest first
RECURSIVE InOrder(_)
InOrder(S) ==
    IF S = {} THEN <<>>
    ELSE LET m == CHOOSE x \in S : \A y \in S : x <= y
         IN  <<m>> \o InOrder(S \ {m})

\* the positions of the lines of a kind among lines lo..hi
LinesOfKind(lines, kind, lo, hi) ==
    InOrder({ i \in lo..hi : lines[i].kind = kind })

\* the last line of a kind before line i
LastOfKind(lines, kind, i) ==
    CHOOSE j \in 1..(i - 1) :
        /\ lines[j].kind = kind
        /\ \A k \in (j + 1)..(i - 1) : lines[k].kind # kind

\* what a reader of the Markdown gets from an escaped string
RECURSIVE Unescape(_)
Unescape(t) ==
    IF t = <<>> THEN <<>>
    ELSE IF Head(t) = 92 /\ Len(t) >= 2
         THEN <<t[2]>> \o Unescape(SubSeq(t, 3, Len(t)))
         ELSE <<Head(t)>> \o Unescape(Tail(t))

RECURSIVE NumberOf(_)
NumberOf(digits) ==
    IF digits = <<>> THEN 0
    ELSE 10 * NumberOf(SubSeq(digits, 1, Len(digits) - 1))
         + (digits[Len(digits)] - 48)

\* rendering is over, for a feed with games in it
Rendered == doc # <<>> /\ feed # <<>>

AllAt == CHOOSE i \in 1..Len(doc) : doc[i].kind = "## All drops"

\* the Recent Drops section and the All drops section, after their headings
RecentBody == SubSeq(doc, 5, AllAt - 1)
AllBody == SubSeq(doc, AllAt + 2, Len(doc))

\* the drops of the Recent Drops section, each with the date and the game
\* it stands under
RecentEntries(body) ==
    LET at == LinesOfKind(body, "  - {} ({})", 1, Len(body))
    IN  [k \in 1..Len(at) |->
            [date |-> body[LastOfKind(body, "{}", at[k])].date,
             game |-> Unescape(body[LastOfKind(body, "- {}", at[k])].name),
             name |-> Unescape(body[at[k]].name),
             ends |-> body[at[k]].ends]]

\* the game blocks of the All drops section
AllBlocks(body) ==
    LET gs == LinesOfKind(body, "{}", 1, Len(body))
        EndOf(k) == IF k < Len(gs) THEN gs[k + 1] - 1 ELSE Len(body)
        DropsIn(k) == LinesOfKind(body, "- {} ({})", gs[k] + 1, EndOf(k))
        RewardsOf(k, ds, m) ==
            LinesOfKind(body, "  - {} ({} minutes watched)", ds[m] + 1,
                        IF m < Len(ds) THEN ds[m + 1] - 1 ELSE EndOf(k))
    IN  [k \in 1..Len(gs) |->
            LET ds == DropsIn(k)
            IN  [name |-> Unescape(body[gs[k]].name),
                 drops |-> [m \in 1..Len(ds) |->
                     LET rs == RewardsOf(k, ds, m)
                     IN  [name |-> Unescape(body[ds[m]].name),
                          ends |-> body[ds[m]].ends,
                          rewards |-> [r \in 1..Len(rs) |->
                              [name |-> Unescape(body[rs[r]].name),
                               minutes |-> NumberOf(body[rs[r]].minutes)]]]],
                 size |-> EndOf(k) - gs[k] + 1,
                 closed |-> body[EndOf(k)].kind = "blank"]]

\* what the All drops section is to show of a game
GameView(game) ==
    [name |-> game.game_display_name,
     drops |-> [m \in 1..Len(game.drops) |->
         [name |-> game.drops[m].name,
          ends |-> ends_in_days(game.drops[m].end_at, now),
          rewards |-> [r \in 1..Len(game.drops[m].rewards) |->
              [name |-> game.drops[m].rewards[r].name,
               minutes |-> game.drops[m].rewards[r].minutes_required]]]]]

BlockView(block) == [name |-> block.name, drops |-> block.drops]

\* the (game, drop) pairs of a game list
Pairs(list) ==
    UNION { { <<g, d>> : d \in 1..Len(list[g].drops) } : g \in 1..Len(list) }

InWindow(drop) == drop.start_at > now - 7 * MinutesPerDay

\* what the Recent Drops section is to show of a pair
EntryOf(list, p) ==
    [date |-> FormatDate(date_naive(list[p[1]].drops[p[2]].start_at)),
     game |-> list[p[1]].game_display_name,
     name |-> list[p[1]].drops[p[2]].name,
     ends |-> ends_in_days(list[p[1]].drops[p[2]].end_at, now)]

----------------------------------------------------------------------------
(* Properties of a run (Spec) *)

Count(seq, x) == Cardinality({ i \in 1..Len(seq) : seq[i] = x })

\* C1: the Recent Drops section shows a (game, drop) pair if and only if
\* the drop started strictly later than now minus 7 days: the drops shown
\* are, one for one, the pairs inside the window.
C1_RecentIsTheOpenWindow ==
    Rendered =>
        LET shown == RecentEntries(RecentBody)
            inside == { p \in Pairs(feed) : InWindow(feed[p[1]].drops[p[2]]) }
        IN  /\ Len(shown) = Cardinality(inside)
            /\ \A p \in inside : Count(shown, EntryOf(feed, p)) > 0
            /\ \A k \in 1..Len(shown) :
                   Count(shown, shown[k])
                       = Cardinality({ p \in inside : EntryOf(feed, p) = shown[k] })

\* a report of a feed with a drop started at the cutoff instant exactly and
\* one started a minute later
C1_Witness ==
    /\ Rendered
    /\ \E p \in Pairs(feed) : feed[p[1]].drops[p[2]].start_at = now - Window
    /\ \E p \in Pairs(feed) : feed[p[1]].drops[p[2]].start_at = now - Window + 1
    /\ Len(RecentEntries(RecentBody)) = 1

\* C4: a run that exits with status 0 has replaced the output file with
\* the whole document it rendered.
C4_SuccessMeansFileReplaced ==
    (pc = "exit" /\ status = "ok") => (doc # <<>> /\ outFile = doc)

Kinds(lines) == [i \in 1..Len(lines) |-> lines[i].kind]

\* C5: for an empty feed the rendered report is the title and the line
\* saying that no campaigns were found, with neither section; for any other
\* feed that line is absent and both sections are there, Recent Drops first.
C5_EmptyFeedShortCircuits ==
    doc # <<>> =>
        IF feed = <<>>
        THEN Kinds(doc)
                 = <<"# Twitch Drops Campaigns", "blank",
                     "No active drops campaigns found.">>
        ELSE /\ Count(Kinds(doc), "No active drops campaigns found.") = 0
             /\ Count(Kinds(doc), "## Recent Drops") = 1
             /\ Count(Kinds(doc), "## All drops") = 1
             /\ doc[1].kind = "# Twitch Drops Campaigns"
             /\ doc[3].kind = "## Recent Drops"
             /\ AllAt > 3

\* the report of an empty feed has been rendered
C5_Witness == doc # <<>> /\ feed = <<>>

\* C6: whatever stage fails, the output file is left as it was, and it
\* never holds a document with a part of the rendered text missing.
C6_NoPartialDocument ==
    /\ outFile = OldContents \/ outFile = doc
    /\ status \notin {"running", "ok"} => outFile = OldContents

Folded(name) == to_lowercase(name)

\* C7: the All drops section has one block per game, in ascending order
\* of the case-folded display names, the games with equal case-folded
\* names in the order of the feed, each name in its own casing.
C7_AllDropsSortedStably ==
    Rendered =>
        LET blocks == AllBlocks(AllBody)
            shown == [k \in 1..Len(blocks) |-> BlockView(blocks[k])]
            fed == [g \in 1..Len(feed) |-> GameView(feed[g])]
        IN  /\ Len(shown) = Len(fed)
            /\ \A i, j \in 1..Len(shown) :
                   i < j => ~StrLess(Folded(shown[j].name), Folded(shown[i].name))
            /\ \A g \in 1..Len(fed) :
                   LET Same(v) == Folded(v.name) = Folded(fed[g].name)
                   IN  SelectSeq(shown, Same) = SelectSeq(fed, Same)

\* a report of a feed with two games whose names are equal after case
\* folding, the byte-wise greater name first
C7_Witness ==
    /\ Rendered
    /\ \E i, j \in 1..Len(feed) :
           /\ i < j
           /\ StrLess(feed[j].game_display_name, feed[i].game_display_name)
           /\ Folded(feed[i].game_display_name) = Folded(feed[j].game_display_name)
           /\ feed[i].drops # feed[j].drops

\* year, month, day in this order
DateLess(a, b) ==
    \/ a[1] < b[1]
    \/ a[1] = b[1] /\ a[2] < b[2]
    \/ a[1] = b[1] /\ a[2] = b[2] /\ a[3] < b[3]

\* the names of the game bullets under each date line, date by date
BulletsByDate(body) ==
    LET ds == LinesOfKind(body, "{}", 1, Len(body))
    IN  [k \in 1..Len(ds) |->
            LET bs == LinesOfKind(body, "- {}", ds[k] + 1,
                                  IF k < Len(ds) THEN ds[k + 1] - 1 ELSE Len(body))
            IN  [date |-> body[ds[k]].date,
                 names |-> [b \in 1..Len(bs) |-> Unescape(body[bs[b]].name)]]]

\* C8: in the Recent Drops section the dates are strictly descending, and
\* under each date the game bullets are strictly ascending by the exact
\* display name, so that names differing only in case are separate bullets.
C8_RecentDatesAndBulletsOrdered ==
    Rendered =>
        LET groups == BulletsByDate(RecentBody)
        IN  /\ \A k \in 1..(Len(groups) - 1) :
                   DateLess(groups[k + 1].date, groups[k].date)
            /\ \A k \in 1..Len(groups) :
                   \A b \in 1..(Len(groups[k].names) - 1) :
                       StrLess(groups[k].names[b], groups[k].names[b + 1])

\* a report with two bullets under one date whose names differ only in case
C8_Witness ==
    /\ Rendered
    /\ LET groups == BulletsByDate(RecentBody)
       IN  \E k \in 1..Len(groups) :
               /\ Len(groups[k].names) = 2
               /\ groups[k].names[1] # groups[k].names[2]
               /\ Folded(groups[k].names[1]) = Folded(groups[k].names[2])

\* the drops the Recent Drops section is to show under a date and a name:
\* those of the games of that exact name, in the order of the sorted list
DueUnder(date, name) ==
    Flatten([g \in 1..Len(games) |->
        IF games[g].game_display_name # name THEN <<>>
        ELSE LET due == SelectSeq(games[g].drops,
                            LAMBDA d : /\ InWindow(d)
                                       /\ FormatDate(date_naive(d.start_at)) = date)
             IN  [m \in 1..Len(due) |->
                     [date |-> date, game |-> name, name |-> due[m].name,
                      ends |-> ends_in_days(due[m].end_at, now)]]])

\* C10: nothing is lost or duplicated.  The All drops section shows each
\* game with its drops and their rewards in the original order; the Recent
\* Drops section shows each pair inside the window once, under its date
\* and its game's exact name, in the order of the sorted list, the drops
\* of games of one name merged under one bullet; a drop has the same
\* ends-in phrase in both sections.
C10_GroupingKeepsEveryDrop ==
    Rendered =>
        LET blocks == AllBlocks(AllBody)
            shown == RecentEntries(RecentBody)
            Under(date, name) ==
                SelectSeq(shown, LAMBDA e : e.date = date /\ e.game = name)
            groups == BulletsByDate(RecentBody)
        IN  /\ Len(blocks) = Len(games)
            /\ \A k \in 1..Len(blocks) :
                   /\ BlockView(blocks[k]) = GameView(games[k])
                   /\ blocks[k].closed
            /\ Len(AllBody) = Len(Flatten([k \in 1..Len(blocks) |->
                                  [i \in 1..blocks[k].size |-> k]]))
            /\ \A k \in 1..Len(groups) :
                   \A b \in 1..Len(groups[k].names) :
                       /\ Under(groups[k].date, groups[k].names[b])
                              = DueUnder(groups[k].date, groups[k].names[b])
                       /\ Count(groups[k].names, groups[k].names[b]) = 1
            /\ \A p \in Pairs(games) :
                   InWindow(games[p[1]].drops[p[2]])
                       => Count(shown, EntryOf(games, p)) > 0
            /\ Len(shown) = Cardinality({ p \in Pairs(games) :
                                            InWindow(games[p[1]].drops[p[2]]) })

\* a report where two games of the same exact name have different drops
\* of one date, merged under one bullet
C10_Witness ==
    /\ Rendered
    /\ Len(games) = 2
    /\ games[1].game_display_name = games[2].game_display_name
    /\ Len(games[1].drops) = 1
    /\ Len(games[2].drops) = 1
    /\ games[1].drops # games[2].drops
    /\ LET groups == BulletsByDate(RecentBody)
       IN  /\ Len(groups) = 1
           /\ Len(groups[1].names) = 1
    /\ Len(RecentEntries(RecentBody)) = 2

====
